---- MODULE Spec2Model ----
(***************************************************************************)
(* Model of the concurrency and error-handling fragments of clean-code.rs: *)
(*   - the channel + worker-thread dispatch queue built by create_sender   *)
(*     and by Sender::new / Sender::send,                                  *)
(*   - the Go Store.GetItem guarded by a mutex,                            *)
(*   - get_item(ctx, json) with its parse / permission / database steps.   *)
(* Each fragment has its own specification; the variables of the other     *)
(* fragments stay at their initial values.                                 *)
(***************************************************************************)
EXTENDS Naturals, Sequences, FiniteSets

\* ------------------------------------------------------------------ bounds
MaxHandles == 3
MaxItems == 3
MaxGoroutines == 2
MaxIds == 2
MaxCalls == 2

Handles == 1..MaxHandles
Goroutines == 1..MaxGoroutines
Ids == 1..MaxIds

VARIABLES
    api,          \* which constructor built the queue
    live,         \* handles (mpsc senders) not yet dropped
    used,         \* number of handles ever created
    chan,         \* the channel's buffer, oldest first
    sent,         \* per handle: the items accepted from it, in order
    pc,           \* the worker thread's position
    inflight,     \* items the worker has pulled and not finished
    processed,    \* items the processing body has been run on, in order
    failed,       \* items on which the processing step failed
    sendOutcomes, \* every outcome a send call has had
    backlog,      \* items unprocessed when the last handle was dropped
    stops         \* number of times the worker thread has ended

queueVars == <<api, live, used, chan, sent, pc, inflight, processed, failed,
               sendOutcomes, backlog, stops>>

VARIABLES
    items,        \* Store.items: id -> Item
    items0,       \* the store's items when the callers started
    mtx,          \* Store.mtx is locked
    gpc,          \* per goroutine: its position in GetItem
    garg,         \* per goroutine: the id it asked for (0 outside a call)
    gret          \* per goroutine: what its call returned ("none" until it has)

storeVars == <<items, items0, mtx, gpc, garg, gret>>

VARIABLES
    gi_pc,        \* position in get_item(ctx, json)
    gi_json,      \* the json argument
    gi_admin,     \* get_user_from_context(ctx).is_admin()
    gi_db,        \* ids the database holds
    gi_order,     \* the parsed Item (0 before parsing)
    gi_steps,     \* the steps this call has performed, in order
    gi_result,    \* the value returned
    gi_calls      \* calls made so far

getItemVars == <<gi_pc, gi_json, gi_admin, gi_db, gi_order, gi_steps,
                 gi_result, gi_calls>>

vars == <<queueVars, storeVars, getItemVars>>

\* ------------------------------------------------------------- the channel
\* A one-slot buffer: a new item overwrites the one still waiting.
EnqueueOverwrite(q, item) ==
    IF q = <<>> THEN <<item>> ELSE [q EXCEPT ![Len(q)] = item]

\* std::sync::mpsc::channel() is an unbounded FIFO: send appends.
Enqueue(q, item) == Append(q, item)

\* A stack instead of a queue: the newest item comes out first.
DequeueNewest(q) == <<q[Len(q)], SubSeq(q, 1, Len(q) - 1)>>

\* receiver.next(): the oldest item, and the buffer without it.
Dequeue(q) == <<Head(q), Tail(q)>>

\* The receiver is owned by the worker closure: it lives until the thread ends.
ReceiverAlive(p) == p \notin {"done", "panicked"}

\* The loop ends as soon as every sender is gone, whatever is buffered.
DisconnectedIgnoringBuffer(q, senders) == senders = {}

\* The loop ends as soon as the buffer is empty (try_recv instead of recv).
DisconnectedWhenEmpty(q, senders) == q = <<>>

\* `for item in receiver` ends when recv() fails: every sender dropped and
\* nothing left in the buffer.
Disconnected(q, senders) == senders = {} /\ q = <<>>

\* The next item is pulled while the previous one is still being processed.
CanPullWhileBusy(p) == p \in {"recv", "processing"}

\* The worker is in `receiver.next()`, so it may take the next item.
CanPull(p) == p = "recv"

\* A failed item breaks out of the loop.
AfterProcessHaltOnFailure(outcome) == IF outcome = "failed" THEN "done" ELSE "recv"

\* The closing brace of the for body: the loop goes back to receiver.next().
AfterProcess(outcome) == "recv"

\* What the elided processing body may report for one item.
ProcessOutcomes == {"ok", "failed"}

\* create_sender hands out the mpsc::Sender itself, whose send returns
\* Err(SendError) when the receiver is gone; Sender::send wraps it in
\* .expect("Failed to send item"), which panics instead.
SendOutcome(a, rxAlive) ==
    IF rxAlive THEN "Ok"
    ELSE IF a = "Sender::new" THEN "Panic" ELSE "Closed"

\* mpsc::Sender<T> is Clone; struct Sender derives nothing.
Cloneable(a) == a = "create_sender"

Sum(f, S) ==
    LET RECURSIVE go(_)
        go(T) == IF T = {} THEN 0
                 ELSE LET x == CHOOSE y \in T : TRUE IN Len(f[x]) + go(T \ {x})
    IN go(S)

TotalSent == Sum(sent, Handles)

\* ------------------------------------------------------------------- Init
\* The state right after create_sender() / Sender::new() has returned: one
\* handle, an empty channel, a worker thread spawned and not yet scheduled.
QueueInit ==
    /\ api \in {"create_sender", "Sender::new"}
    /\ live = {1}
    /\ used = 1
    /\ chan = <<>>
    /\ sent = [h \in Handles |-> <<>>]
    /\ pc = "spawned"
    /\ inflight = {}
    /\ processed = <<>>
    /\ failed = {}
    /\ sendOutcomes = {}
    /\ backlog = 0
    /\ stops = 0

\* ---------------------------------------------------------------- producers
Send(h) ==
    /\ h \in live
    /\ TotalSent < MaxItems
    /\ LET item == <<h, Len(sent[h]) + 1>>
           out == SendOutcome(api, ReceiverAlive(pc))
       IN /\ sendOutcomes' = sendOutcomes \cup {out}
          /\ IF out = "Ok"
             THEN /\ chan' = Enqueue(chan, item)
                  /\ sent' = [sent EXCEPT ![h] = Append(@, item)]
                  /\ live' = live
             ELSE /\ UNCHANGED <<chan, sent>>
                  \* a panicking caller unwinds and drops its handle
                  /\ live' = IF out = "Panic" THEN live \ {h} ELSE live
    /\ UNCHANGED <<api, used, pc, inflight, processed, failed, backlog, stops>>
    /\ UNCHANGED <<storeVars, getItemVars>>

CloneHandle(h) ==
    /\ Cloneable(api)
    /\ h \in live
    /\ used < MaxHandles
    /\ used' = used + 1
    /\ live' = live \cup {used + 1}
    /\ UNCHANGED <<api, chan, sent, pc, inflight, processed, failed,
                   sendOutcomes, backlog, stops>>
    /\ UNCHANGED <<storeVars, getItemVars>>

DropHandle(h) ==
    /\ h \in live
    /\ live' = live \ {h}
    /\ backlog' = IF live' = {} /\ ReceiverAlive(pc)
                  THEN Len(chan) + Cardinality(inflight) ELSE backlog
    /\ UNCHANGED <<api, used, chan, sent, pc, inflight, processed, failed,
                   sendOutcomes, stops>>
    /\ UNCHANGED <<storeVars, getItemVars>>

\* ------------------------------------------------------------------ worker
WorkerStart ==
    /\ pc = "spawned"
    /\ pc' = "recv"
    /\ UNCHANGED <<api, live, used, chan, sent, inflight, processed, failed,
                   sendOutcomes, backlog, stops>>
    /\ UNCHANGED <<storeVars, getItemVars>>

Recv ==
    /\ CanPull(pc)
    /\ chan # <<>>
    /\ LET d == Dequeue(chan)
       IN /\ inflight' = inflight \cup {d[1]}
          /\ chan' = d[2]
    /\ pc' = "processing"
    /\ UNCHANGED <<api, live, used, sent, processed, failed, sendOutcomes,
                   backlog, stops>>
    /\ UNCHANGED <<storeVars, getItemVars>>

Process ==
    /\ pc = "processing"
    /\ \E item \in inflight, outcome \in ProcessOutcomes :
        /\ inflight' = inflight \ {item}
        /\ processed' = Append(processed, item)
        /\ failed' = IF outcome = "failed" THEN failed \cup {item} ELSE failed
        /\ pc' = AfterProcess(outcome)
        /\ stops' = IF pc' = "done" THEN stops + 1 ELSE stops
    /\ UNCHANGED <<api, live, used, chan, sent, sendOutcomes, backlog>>
    /\ UNCHANGED <<storeVars, getItemVars>>

\* The worker polls again instead of leaving the loop.
WorkerExitSpin ==
    /\ pc = "recv"
    /\ Disconnected(chan, live)
    /\ UNCHANGED vars


WorkerExit ==
    /\ pc = "recv"
    /\ Disconnected(chan, live)
    /\ pc' = "done"
    /\ stops' = stops + 1
    /\ UNCHANGED <<api, live, used, chan, sent, inflight, processed, failed,
                   sendOutcomes, backlog>>
    /\ UNCHANGED <<storeVars, getItemVars>>

\* A panic inside the processing body unwinds the worker thread: the item in
\* hand is lost with it and the receiver is dropped.
WorkerPanic ==
    /\ pc = "processing"
    /\ pc' = "panicked"
    /\ stops' = stops + 1
    /\ UNCHANGED <<api, live, used, chan, sent, inflight, processed, failed,
                   sendOutcomes, backlog>>
    /\ UNCHANGED <<storeVars, getItemVars>>

Worker == WorkerStart \/ Recv \/ Process \/ WorkerExit

\* ------------------------------------------------------- Go Store.GetItem
NullItem == [id |-> 0]

ItemOf(i) == [id |-> i]

\* sync.Mutex.Lock() returns only when the mutex is free.
CanLock(m) == ~m

\* Unlock() only on the path that found the item (no defer).
UnlockOnlyWhenFound(found) == ~found

\* `defer store.mtx.Unlock()` runs on the return path `found` takes.
Unlock(found) == FALSE

\* item, ok := store.items[id]
Lookup(its, id) == IF id \in DOMAIN its THEN "found" ELSE "missing"

StoreInit ==
    /\ \E present \in SUBSET Ids : items = [i \in present |-> ItemOf(i)]
    /\ items0 = items
    /\ mtx = FALSE
    /\ gpc = [g \in Goroutines |-> "idle"]
    /\ garg = [g \in Goroutines |-> 0]
    /\ gret = [g \in Goroutines |-> <<NullItem, "none">>]

\* The variables of the store with no caller at work.
StoreIdle ==
    /\ items = <<>>
    /\ items0 = items
    /\ mtx = FALSE
    /\ gpc = [g \in Goroutines |-> "idle"]
    /\ garg = [g \in Goroutines |-> 0]
    /\ gret = [g \in Goroutines |-> <<NullItem, "none">>]

GetItemCall(g) ==
    /\ gpc[g] = "idle"
    /\ \E id \in Ids :
        /\ garg' = [garg EXCEPT ![g] = id]
        /\ gpc' = [gpc EXCEPT ![g] = "lock"]
    /\ gret' = [gret EXCEPT ![g] = <<NullItem, "none">>]
    /\ UNCHANGED <<items, items0, mtx>>
    /\ UNCHANGED <<queueVars, getItemVars>>

GetItemLock(g) ==
    /\ gpc[g] = "lock"
    /\ CanLock(mtx)
    /\ mtx' = TRUE
    /\ gpc' = [gpc EXCEPT ![g] = "lookup"]
    /\ UNCHANGED <<items, items0, garg, gret>>
    /\ UNCHANGED <<queueVars, getItemVars>>

GetItemLookup(g) ==
    /\ gpc[g] = "lookup"
    /\ gpc' = [gpc EXCEPT ![g] = Lookup(items, garg[g])]
    /\ UNCHANGED <<items, items0, mtx, garg, gret>>
    /\ UNCHANGED <<queueVars, getItemVars>>

GetItemReturn(g) ==
    /\ gpc[g] \in {"found", "missing"}
    /\ LET found == gpc[g] = "found"
       IN /\ gret' = [gret EXCEPT ![g] =
                        IF found THEN <<items[garg[g]], "nil">>
                        ELSE <<NullItem, "ErrItemNotFound">>]
          /\ mtx' = Unlock(found)
    /\ garg' = [garg EXCEPT ![g] = 0]
    /\ gpc' = [gpc EXCEPT ![g] = "idle"]
    /\ UNCHANGED <<items, items0>>
    /\ UNCHANGED <<queueVars, getItemVars>>

\* ------------------------------------------------- get_item(ctx, json)
\* The json argument: bytes that do not parse, or the encoding of an item id.
JsonInputs == {<<"malformed", 0>>} \cup {<<"item", i>> : i \in Ids}

\* Item::from_json(json)?
FromJson(json) ==
    IF json[1] = "item" THEN [ok |-> TRUE, item_id |-> json[2]]
    ELSE [ok |-> FALSE, item_id |-> 0]

\* Where get_item goes after from_json: `?` returns the error at once.
AfterParse(parsed) == IF parsed.ok THEN "authz" ELSE "ret"

\* The permission test's result is ignored.
AfterAuthzIgnored(admin) == "db"

\* Where get_item goes after the is_admin() test.
AfterAuthz(admin) == IF admin THEN "db" ELSE "ret"

\* db::get_item(id)
DbGetItem(db, id) == 
    IF id \in db THEN <<"Ok", "none", id>> ELSE <<"Err", "NotFound", 0>>

GetItemInit ==
    /\ gi_pc = "idle"
    /\ gi_json = <<"malformed", 0>>
    /\ gi_admin = FALSE
    /\ gi_db \in SUBSET Ids
    /\ gi_order = 0
    /\ gi_steps = <<>>
    /\ gi_result = <<"none", "none", 0>>
    /\ gi_calls = 0

GetItemIdle ==
    /\ gi_pc = "idle"
    /\ gi_json = <<"malformed", 0>>
    /\ gi_admin = FALSE
    /\ gi_db = {}
    /\ gi_order = 0
    /\ gi_steps = <<>>
    /\ gi_result = <<"none", "none", 0>>
    /\ gi_calls = 0

GiCall ==
    /\ gi_pc \in {"idle", "ret"}
    /\ gi_calls < MaxCalls
    /\ gi_calls' = gi_calls + 1
    /\ gi_json' \in JsonInputs
    /\ gi_admin' \in BOOLEAN
    /\ gi_order' = 0
    /\ gi_steps' = <<>>
    /\ gi_result' = <<"none", "none", 0>>
    /\ gi_pc' = "parse"
    /\ UNCHANGED gi_db
    /\ UNCHANGED <<queueVars, storeVars>>

GiParse ==
    /\ gi_pc = "parse"
    /\ LET parsed == FromJson(gi_json)
       IN /\ gi_order' = parsed.item_id
          /\ gi_result' = IF parsed.ok THEN gi_result ELSE <<"Err", "Parse", 0>>
          /\ gi_pc' = AfterParse(parsed)
    /\ gi_steps' = Append(gi_steps, "from_json")
    /\ UNCHANGED <<gi_json, gi_admin, gi_db, gi_calls>>
    /\ UNCHANGED <<queueVars, storeVars>>

GiAuthz ==
    /\ gi_pc = "authz"
    /\ gi_steps' = Append(gi_steps, "is_admin")
    /\ gi_pc' = AfterAuthz(gi_admin)
    /\ gi_result' = IF gi_pc' = "ret" THEN <<"Err", "PermissionDenied", 0>>
                    ELSE gi_result
    /\ UNCHANGED <<gi_json, gi_admin, gi_db, gi_order, gi_calls>>
    /\ UNCHANGED <<queueVars, storeVars>>

GiDb ==
    /\ gi_pc = "db"
    /\ gi_steps' = Append(gi_steps, "db::get_item")
    /\ gi_result' = DbGetItem(gi_db, gi_order)
    /\ gi_pc' = "ret"
    /\ UNCHANGED <<gi_json, gi_admin, gi_db, gi_order, gi_calls>>
    /\ UNCHANGED <<queueVars, storeVars>>

\* ---------------------------------------------------------- specifications
Init == QueueInit /\ StoreIdle /\ GetItemIdle

Next ==
    \/ \E h \in Handles : Send(h)
    \/ \E h \in Handles : CloneHandle(h)
    \/ \E h \in Handles : DropHandle(h)
    \/ WorkerStart
    \/ Recv
    \/ Process
    \/ WorkerExit

\* The dispatch queue, any scheduling.
Spec == Init /\ [][Next]_vars

\* The dispatch queue with the worker thread scheduled fairly.
FairSpec == Spec /\ WF_vars(Worker)

\* The dispatch queue when the processing body may also panic.
NextAbort == Next \/ WorkerPanic

SpecAbort == Init /\ [][NextAbort]_vars

\* The queue's variables with nothing submitted, for the other fragments.
QueueIdle ==
    /\ api = "create_sender"
    /\ live = {1}
    /\ used = 1
    /\ chan = <<>>
    /\ sent = [h \in Handles |-> <<>>]
    /\ pc = "spawned"
    /\ inflight = {}
    /\ processed = <<>>
    /\ failed = {}
    /\ sendOutcomes = {}
    /\ backlog = 0
    /\ stops = 0

StoreSpecInit == QueueIdle /\ StoreInit /\ GetItemIdle

StoreNext ==
    \/ \E g \in Goroutines : GetItemCall(g)
    \/ \E g \in Goroutines : GetItemLock(g)
    \/ \E g \in Goroutines : GetItemLookup(g)
    \/ \E g \in Goroutines : GetItemReturn(g)

\* Goroutines calling Store.GetItem on one store.  sync.Mutex hands the lock
\* to a waiter that keeps being passed over (starvation mode), hence SF; a
\* goroutine past Lock() keeps running, hence WF.
StoreSpec ==
    /\ StoreSpecInit
    /\ [][StoreNext]_vars
    /\ \A g \in Goroutines :
        /\ SF_vars(GetItemLock(g))
        /\ WF_vars(GetItemLookup(g))
        /\ WF_vars(GetItemReturn(g))

\* Calls of get_item(ctx, json), one after the other.
GetItemSpecInit == QueueIdle /\ StoreIdle /\ GetItemInit

GetItemNext == GiCall \/ GiParse \/ GiAuthz \/ GiDb

GetItemSpec == GetItemSpecInit /\ [][GetItemNext]_vars

\* ------------------------------------------------------------- vocabulary
\* The state machine of the queue, read off the worker thread and the handles.
WorkerState ==
    IF pc = "spawned" THEN "Created"
    ELSE IF ~ReceiverAlive(pc) THEN "Stopped"
    ELSE IF live = {} THEN "Draining"
    ELSE "Running"

WorkerRank ==
    CASE WorkerState = "Created" -> 0
      [] WorkerState = "Running" -> 1
      [] WorkerState = "Draining" -> 2
      [] WorkerState = "Stopped" -> 3

IsPrefix(s, t) == Len(s) <= Len(t) /\ \A i \in 1..Len(s) : s[i] = t[i]

FromHandle(h, it) == it[1] = h

ProcessedOf(h) == SelectSeq(processed, LAMBDA it : FromHandle(h, it))

Occurrences(seq, x) == Cardinality({k \in 1..Len(seq) : seq[k] = x})

AllSentProcessed == \A h \in Handles : \A i \in 1..Len(sent[h]) :
                        Occurrences(processed, sent[h][i]) = 1

InCritical == {g \in Goroutines : gpc[g] \in {"lookup", "found", "missing"}}

Did(step) == \E i \in 1..Len(gi_steps) : gi_steps[i] = step

\* ------------------------------------------------------------------ claims
\* C1: the items one handle submitted are processed in the order that handle
\* submitted them, whatever the other handles submit in between: what has been
\* processed of a handle's items is always a prefix of what it submitted.
C1_PerHandleOrder == \A h \in Handles : IsPrefix(ProcessedOf(h), sent[h])

\* Two items of handle 1 processed with an item of handle 2 between them.
C1_Witness ==
    \E i, j, k \in 1..Len(processed) :
        /\ i < j /\ j < k
        /\ processed[i][1] = 1 /\ processed[j][1] = 2 /\ processed[k][1] = 1

\* C2: once every handle is closed and the worker has stopped, the number of
\* processing invocations equals the number of items submitted, and every
\* submitted item was processed exactly once.
C2_ExactlyOnce ==
    (live = {} /\ pc = "done") =>
        /\ Len(processed) = TotalSent
        /\ AllSentProcessed

\* Three items or more, submitted through two handles or more, all processed.
C2_Witness ==
    /\ live = {} /\ pc = "done"
    /\ TotalSent >= 3
    /\ Cardinality({h \in Handles : sent[h] # <<>>}) >= 2

\* C3: the worker is never Stopped while an accepted item is unprocessed: when
\* the last handle closes with items buffered, they are all processed first.
C3_DrainBeforeStop ==
    WorkerState = "Stopped" =>
        /\ chan = <<>>
        /\ inflight = {}
        /\ \A h \in Handles : \A i \in 1..Len(sent[h]) :
              \E k \in 1..Len(processed) : processed[k] = sent[h][i]

\* The last handle closed with two items or more unprocessed; the worker has
\* stopped since.
C3_Witness == pc = "done" /\ backlog >= 2

C6_LiveKeepsWorker ==
    live # {} =>
        /\ WorkerState \in {"Created", "Running"}
        /\ sendOutcomes \subseteq {"Ok"}

\* The original handle is closed, a clone is live, and the worker waits on an
\* empty channel after having processed something.
C6_Witness ==
    /\ 1 \notin live /\ live # {}
    /\ pc = "recv" /\ chan = <<>> /\ processed # <<>>

\* C7: once every handle is released the worker eventually is Stopped; it stops
\* once; the state never moves backward along Created, Running, Draining,
\* Stopped, so Stopped is absorbing.
C7_StopsOnceForGood ==
    /\ (live = {}) ~> (WorkerState = "Stopped")
    /\ [](stops <= 1)
    /\ [][WorkerRank' >= WorkerRank]_vars

\* The worker has stopped, after draining items of cloned handles.
C7_Witness ==
    /\ WorkerState = "Stopped" /\ stops = 1
    /\ used >= 2 /\ Len(processed) >= 2

\* C8: at most one item is being processed, and a pulled item is finished
\* before anything else is pulled, also when every handle has been closed.
C8_OneAtATime ==
    /\ [](Cardinality(inflight) <= 1)
    /\ [][inflight # {} =>
            \/ inflight' = inflight
            \/ /\ inflight' = {}
               /\ Len(processed') = Len(processed) + 1
               /\ processed'[Len(processed')] \in inflight]_vars

\* An item is being processed, every handle is closed, more items wait.
C8_Witness == inflight # {} /\ live = {} /\ chan # <<>>

\* C9: at most one goroutine is between Lock() and Unlock(); the mutex is free
\* again whenever no call is inside; every call returns; the items stay as
\* they were.
C9_MutexGetItem ==
    /\ [](Cardinality(InCritical) <= 1)
    /\ [](InCritical = {} => ~mtx)
    /\ [](items = items0)
    /\ \A g \in Goroutines : (gpc[g] # "idle") ~> (gpc[g] = "idle")

\* One goroutine has returned ErrItemNotFound, the other is inside the lookup.
C9_Witness ==
    \E g1, g2 \in Goroutines :
        /\ gret[g1] = <<NullItem, "ErrItemNotFound">>
        /\ gpc[g1] = "idle"
        /\ gpc[g2] = "found"

\* C10: db::get_item is reached only with parsed json and an admin user; a
\* parse failure returns its error before the permission test; a non-admin
\* user gets PermissionDenied and no database access.
C10_GuardedLookup ==
    /\ Did("db::get_item") => FromJson(gi_json).ok /\ gi_admin
    /\ (gi_pc = "ret" /\ ~FromJson(gi_json).ok) =>
          gi_result = <<"Err", "Parse", 0>> /\ gi_steps = <<"from_json">>
    /\ (gi_pc = "ret" /\ FromJson(gi_json).ok /\ ~gi_admin) =>
          /\ gi_result = <<"Err", "PermissionDenied", 0>>
          /\ gi_steps = <<"from_json", "is_admin">>

\* A non-admin call with good json has returned, after an earlier call.
C10_Witness ==
    /\ gi_pc = "ret" /\ gi_calls = 2
    /\ FromJson(gi_json).ok /\ ~gi_admin
    /\ gi_result = <<"Err", "PermissionDenied", 0>>

====
